---- MODULE Spec2Model ----
(***************************************************************************)
(* Model of the level_3 hands-on scripts of python_interview_guide:         *)
(*   3_testing/hands_on_examples/app.py        UserManager, divide         *)
(*   5_python_internals/hands_on/bytecode_inspector.py  unsafe_operation   *)
(*   5_python_internals/hands_on/gil_impact.py count_down, run_threaded    *)
(*   4_performance_and_optimization/.../optimization_strategies.py  fib_*  *)
(* Every script is standalone; `script` says which one a behaviour runs.   *)
(***************************************************************************)
EXTENDS Integers, Sequences, FiniteSets, TLC

VARIABLES
    script,     \* which standalone script / test scenario this behaviour runs
    users,      \* app.py: what db.get_users() returns (the stub's return_value)
    saved,      \* app.py: records db.save_user was called with, in call order
    calls,      \* app.py: names add_user was called with, in call order
    last,       \* app.py: outcome of the most recent call (return value or raised error)
    x,          \* bytecode_inspector.py: the global x
    pc,         \* bytecode_inspector.py: each thread's next bytecode of unsafe_operation
    stack,      \* bytecode_inspector.py: each thread's evaluation stack
    loaded,     \* bytecode_inspector.py: the value of x each thread's LOAD_GLOBAL read
    N,          \* gil_impact.py: the argument n of run_threaded
    mainpc,     \* gil_impact.py: run_threaded's position
    tstate,     \* gil_impact.py: each threading.Thread's state
    cnt,        \* gil_impact.py: each count_down frame's local n
    cache,      \* optimization_strategies.py: the lru_cache of fib_memoized
    fibres      \* optimization_strategies.py: the results of the calls made so far

vars == <<script, users, saved, calls, last, x, pc, stack, loaded,
          N, mainpc, tstate, cnt, cache, fibres>>

appVars  == <<users, saved, calls, last>>
byteVars == <<x, pc, stack, loaded>>
gilVars  == <<N, mainpc, tstate, cnt>>
fibVars  == <<cache, fibres>>

----------------------------------------------------------------------------
(* Bounds *)
MaxNameLen == 2     \* length of the generated names
MaxUsers   == 2     \* length of the list db.get_users() returns
MaxCalls   == 3     \* add_user calls in one behaviour
MaxInt     == 12    \* magnitude of divide's operands
MaxX       == 2     \* initial value of the global x
MaxN       == 7     \* argument of run_threaded
MaxFibN    == 10    \* argument of the fib_* functions
MaxFibCalls == 3    \* fib rounds in one behaviour

----------------------------------------------------------------------------
(* Strings are sequences of characters; "sz" stands for U+00DF, whose      *)
(* uppercase form is the two characters "SS".                              *)
LowerLetters == <<"a", "b", "c", "e", "h", "i", "l", "o", "r">>
UpperLetters == <<"A", "B", "C", "E", "H", "I", "L", "O", "R">>

Chars == {"a", "B", "1", "sz"}

alice   == <<"a", "l", "i", "c", "e">>
bob     == <<"b", "o", "b">>
charlie == <<"c", "h", "a", "r", "l", "i", "e">>

SeqsUpTo(S, k) == UNION {[1..m -> S] : m \in 0..k}

Names == SeqsUpTo(Chars, MaxNameLen) \cup {alice, bob, charlie}

UserRecords == [name : Names]
UserLists   == SeqsUpTo(UserRecords, MaxUsers)

IndexOf(c, s) == CHOOSE i \in 1..Len(s) : s[i] = c

IsLower(c) == (\E i \in 1..Len(LowerLetters) : LowerLetters[i] = c) \/ c = "sz"

(* str.upper() on one character *)
UpperChar(c) ==
    IF c = "sz" THEN <<"S", "S">>
    ELSE IF \E i \in 1..Len(LowerLetters) : LowerLetters[i] = c
         THEN <<UpperLetters[IndexOf(c, LowerLetters)]>>
         ELSE <<c>>

RECURSIVE str_upper(_)
str_upper(s) ==
    IF s = <<>> THEN <<>> ELSE UpperChar(Head(s)) \o str_upper(Tail(s))

NoCall == [op |-> "none"]

----------------------------------------------------------------------------
(* app.py: UserManager *)

RaisingOnEmpty(us) ==
    IF \E i \in 1..Len(us) : us[i].name = <<>>
    THEN [outcome |-> "raise", exc |-> "ValueError", msg |-> "Name cannot be empty"]
    ELSE [outcome |-> "return", value |-> [i \in 1..Len(us) |-> str_upper(us[i].name)]]

ReversedNames(us) ==
    [outcome |-> "return",
     value |-> [i \in 1..Len(us) |-> str_upper(us[Len(us) + 1 - i].name)]]

(* [user['name'].upper() for user in users] *)
NameList(us) ==
    [outcome |-> "return", value |-> [i \in 1..Len(us) |-> str_upper(us[i].name)]]

get_user_names ==
    /\ script = "get_user_names"
    /\ last' = [op |-> "get_user_names", args |-> users] @@ NameList(users)
    /\ UNCHANGED <<script, users, saved, calls, byteVars, gilVars, fibVars>>

SaveAlways(name) == TRUE

(* `if not name: raise ValueError(...)` : does the call get past the check *)
PassesValidation(name) == name # <<>>

InactiveUser(name) == [name |-> name, active |-> FALSE]

NewUser(name) == [name |-> name, active |-> TRUE]

SaveBeforeCheck(name) == Append(saved, NewUser(name))

(* the db.save_user calls after add_user(name): the raise comes before the save *)
SaveCalls(name) ==
    IF PassesValidation(name) THEN Append(saved, NewUser(name)) ELSE saved

add_user(name) ==
    /\ script = "add_user"
    /\ Len(calls) < MaxCalls
    /\ calls' = Append(calls, name)
    /\ saved' = SaveCalls(name)
    /\ IF PassesValidation(name)
       THEN last' = [op |-> "add_user", args |-> name, outcome |-> "return",
                     value |-> NewUser(name)]
       ELSE last' = [op |-> "add_user", args |-> name, outcome |-> "raise",
                     exc |-> "ValueError", msg |-> "Name cannot be empty"]
    /\ UNCHANGED <<script, users, byteVars, gilVars, fibVars>>

(* the names the add_user calls are made with *)
AddNames == {<<>>} \cup {<<c>> : c \in Chars} \cup {bob, charlie}

AddUser == \E name \in AddNames : add_user(name)

----------------------------------------------------------------------------
(* app.py: divide.  `a / b` on ints is true division: the result is the    *)
(* float (IEEE-754 binary64, MantDig significant bits) nearest to the      *)
(* quotient, ties to even.  A float is [sign, exp, mant] with value        *)
(* (-1)^sign * 2^exp * (mant[1] + mant[2]/2 + ... ), mant[1] = 1 unless 0. *)
MantDig == 53

Abs(i) == IF i < 0 THEN -i ELSE i

ZeroMant == [i \in 1..MantDig |-> 0]

(* scale p or q by powers of two until q <= p < 2q *)
RECURSIVE Normalize(_, _, _)
Normalize(p, q, e) ==
    IF p < q THEN Normalize(2 * p, q, e - 1)
    ELSE IF p >= 2 * q THEN Normalize(p, 2 * q, e + 1)
    ELSE [p |-> p, q |-> q, e |-> e]

(* one step of the long division of r by q (r < 2q): a quotient bit and the *)
(* doubled remainder                                                        *)
DivStep(r, q) ==
    LET bit == IF r >= q THEN 1 ELSE 0
    IN  [bits |-> <<bit>>, rem |-> 2 * (r - bit * q)]

(* k quotient bits of r / q, most significant first, and the remainder; the *)
(* steps are grouped in halves to keep the evaluation shallow               *)
RECURSIVE LongDiv(_, _, _)
LongDiv(r, q, k) ==
    IF k = 0 THEN [bits |-> <<>>, rem |-> r]
    ELSE IF k = 1 THEN DivStep(r, q)
    ELSE LET first  == LongDiv(r, q, k \div 2)
             second == LongDiv(first.rem, q, k - k \div 2)
         IN  [bits |-> first.bits \o second.bits, rem |-> second.rem]

(* mantissa + 1 unit in the last place; carry is 1 when it wraps to zero *)
Increment(m) ==
    IF \A i \in 1..Len(m) : m[i] = 1
    THEN [bits |-> [i \in 1..Len(m) |-> 0], carry |-> 1]
    ELSE LET j == CHOOSE j \in 1..Len(m) :
                      m[j] = 0 /\ \A i \in (j + 1)..Len(m) : m[i] = 1
         IN  [bits |-> [i \in 1..Len(m) |-> IF i < j THEN m[i] ELSE IF i = j THEN 1 ELSE 0],
              carry |-> 0]

(* round toward zero instead of to nearest *)
Truncate(d, q, e, sign) == [sign |-> sign, exp |-> e, mant |-> d.bits]

(* round-half-even of the MantDig-bit quotient d (d.rem = 2 * remainder) *)
Round(d, q, e, sign) ==
    LET up == \/ d.rem > q
              \/ d.rem = q /\ d.bits[MantDig] = 1
        inc == Increment(d.bits)
    IN  IF ~up THEN [sign |-> sign, exp |-> e, mant |-> d.bits]
        ELSE IF inc.carry = 1
             THEN [sign |-> sign, exp |-> e + 1, mant |-> <<1>> \o SubSeq(inc.bits, 1, MantDig - 1)]
             ELSE [sign |-> sign, exp |-> e, mant |-> inc.bits]

ReturnsZero == [outcome |-> "return", value |-> [sign |-> 0, exp |-> 0, mant |-> ZeroMant]]

(* raise ZeroDivisionError("division by zero") *)
DivisionByZero ==
    [outcome |-> "raise", exc |-> "ZeroDivisionError", msg |-> "division by zero"]

(* a / b for ints a, b: the interpreter itself raises on a zero divisor *)
TrueDiv(a, b) ==
    LET sign == IF (a < 0) # (b < 0) THEN 1 ELSE 0
    IN  IF b = 0 THEN DivisionByZero
        ELSE IF a = 0
        THEN [outcome |-> "return",
              value |-> [sign |-> IF b < 0 THEN 1 ELSE 0, exp |-> 0, mant |-> ZeroMant]]
        ELSE LET nz == Normalize(Abs(a), Abs(b), 0)
             IN  [outcome |-> "return",
                  value |-> Round(LongDiv(nz.p, nz.q, MantDig), nz.q, nz.e, sign)]

(* `if b == 0` *)
IsZero(b) == b = 0

(* each behaviour of the "divide" scenario makes one call, as each test does *)
divide(a, b) ==
    /\ script = "divide"
    /\ last = NoCall
    /\ last' = [op |-> "divide", args |-> <<a, b>>]
                @@ (IF IsZero(b) THEN DivisionByZero ELSE TrueDiv(a, b))
    /\ UNCHANGED <<script, users, saved, calls, byteVars, gilVars, fibVars>>

Divide == \E a, b \in -MaxInt..MaxInt : divide(a, b)

----------------------------------------------------------------------------
(* bytecode_inspector.py: two threads each running unsafe_operation once.  *)
(* `x += 1` is LOAD_GLOBAL x; LOAD_CONST 1; INPLACE_ADD; STORE_GLOBAL x,   *)
(* and the interpreter may switch threads between any two bytecodes.       *)
Threads == {1, 2}

LOAD_GLOBAL(t) ==
    /\ script = "bytecode_inspector"
    /\ pc[t] = "LOAD_GLOBAL"
    /\ stack' = [stack EXCEPT ![t] = <<x>> \o @]
    /\ loaded' = [loaded EXCEPT ![t] = x]
    /\ pc' = [pc EXCEPT ![t] = "LOAD_CONST"]
    /\ UNCHANGED <<script, x, appVars, gilVars, fibVars>>

LOAD_CONST(t) ==
    /\ script = "bytecode_inspector"
    /\ pc[t] = "LOAD_CONST"
    /\ stack' = [stack EXCEPT ![t] = <<1>> \o @]
    /\ pc' = [pc EXCEPT ![t] = "INPLACE_ADD"]
    /\ UNCHANGED <<script, x, loaded, appVars, gilVars, fibVars>>

INPLACE_ADD(t) ==
    /\ script = "bytecode_inspector"
    /\ pc[t] = "INPLACE_ADD"
    /\ stack' = [stack EXCEPT ![t] = <<@[2] + @[1]>> \o SubSeq(@, 3, Len(@))]
    /\ pc' = [pc EXCEPT ![t] = "STORE_GLOBAL"]
    /\ UNCHANGED <<script, x, loaded, appVars, gilVars, fibVars>>

RereadGlobal(t) == x + 1

(* the value STORE_GLOBAL writes: the top of the thread's stack *)
TopOfStack(t) == stack[t][1]

STORE_GLOBAL(t) ==
    /\ script = "bytecode_inspector"
    /\ pc[t] = "STORE_GLOBAL"
    /\ x' = TopOfStack(t)
    /\ stack' = [stack EXCEPT ![t] = Tail(@)]
    /\ pc' = [pc EXCEPT ![t] = "done"]
    /\ UNCHANGED <<script, loaded, appVars, gilVars, fibVars>>

unsafe_operation(t) ==
    \/ LOAD_GLOBAL(t)
    \/ LOAD_CONST(t)
    \/ INPLACE_ADD(t)
    \/ STORE_GLOBAL(t)

----------------------------------------------------------------------------
(* gil_impact.py: run_threaded(n) and its two count_down threads *)

(* `while n > 0: n -= 1` : one iteration *)
count_down_step(t) ==
    /\ script = "gil_impact"
    /\ tstate[t] = "started"
    /\ cnt[t] > 0
    /\ cnt' = [cnt EXCEPT ![t] = @ - 1]
    /\ UNCHANGED <<script, N, mainpc, tstate, appVars, byteVars, fibVars>>

(* the loop test fails, count_down returns and the thread ends *)
count_down_exit(t) ==
    /\ script = "gil_impact"
    /\ tstate[t] = "started"
    /\ ~(cnt[t] > 0)
    /\ tstate' = [tstate EXCEPT ![t] = "finished"]
    /\ UNCHANGED <<script, N, mainpc, cnt, appVars, byteVars, fibVars>>

count_down(t) == count_down_step(t) \/ count_down_exit(t)

(* args=(n // 2,) *)
ThreadArg(n) == n \div 2

(* t1 = threading.Thread(...); t2 = threading.Thread(...) *)
CreateThreads ==
    /\ script = "gil_impact"
    /\ mainpc = "create"
    /\ cnt' = [t \in Threads |-> ThreadArg(N)]
    /\ tstate' = [t \in Threads |-> "initial"]
    /\ mainpc' = "start1"
    /\ UNCHANGED <<script, N, appVars, byteVars, fibVars>>

Start(t, here, next) ==
    /\ script = "gil_impact"
    /\ mainpc = here
    /\ tstate' = [tstate EXCEPT ![t] = "started"]
    /\ mainpc' = next
    /\ UNCHANGED <<script, N, cnt, appVars, byteVars, fibVars>>

NoWait(t) == TRUE

(* Thread.join() returns once the thread has ended *)
Joinable(t) == tstate[t] = "finished"

Join(t, here, next) ==
    /\ script = "gil_impact"
    /\ mainpc = here
    /\ Joinable(t)
    /\ mainpc' = next
    /\ UNCHANGED <<script, N, tstate, cnt, appVars, byteVars, fibVars>>

run_threaded ==
    \/ CreateThreads
    \/ Start(1, "start1", "start2")
    \/ Start(2, "start2", "join1")
    \/ Join(1, "join1", "join2")
    \/ Join(2, "join2", "returned")

----------------------------------------------------------------------------
(* optimization_strategies.py *)

RECURSIVE fib_naive(_)
fib_naive(n) == IF n < 2 THEN n ELSE fib_naive(n - 1) + fib_naive(n - 2)

(* fib_memoized under @lru_cache(maxsize=None): the value and the cache after the call *)
RECURSIVE fib_memoized(_, _)
fib_memoized(n, c) ==
    IF n \in DOMAIN c THEN [value |-> c[n], cache |-> c]
    ELSE IF n < 2 THEN [value |-> n, cache |-> c @@ (n :> n)]
    ELSE LET r1 == fib_memoized(n - 1, c)
             r2 == fib_memoized(n - 2, r1.cache)
             v  == r1.value + r2.value
         IN  [value |-> v, cache |-> r2.cache @@ (n :> v)]

(* `for _ in range(n): a, b = b, a + b` *)
RECURSIVE FibLoop(_, _, _)
FibLoop(a, b, k) == IF k <= 0 THEN <<a, b>> ELSE FibLoop(b, a + b, k - 1)

ReturnB(n) == FibLoop(0, 1, n)[2]

fib_iterative(n) == FibLoop(0, 1, n)[1]

(* one round of main(): the three implementations called with the same n *)
CallFib(n) ==
    /\ script = "optimization_strategies"
    /\ Len(fibres) < MaxFibCalls
    /\ LET m == fib_memoized(n, cache)
       IN  /\ cache' = m.cache
           /\ fibres' = Append(fibres, [n |-> n, hit |-> n \in DOMAIN cache,
                                        naive |-> fib_naive(n), memo |-> m.value,
                                        iter |-> fib_iterative(n)])
    /\ UNCHANGED <<script, appVars, byteVars, gilVars>>

Main == \E n \in 0..MaxFibN : CallFib(n)

----------------------------------------------------------------------------
Scripts == {"get_user_names", "add_user", "divide", "bytecode_inspector",
            "gil_impact", "optimization_strategies"}

EmptyCache == [n \in {} |-> 0]

Init ==
    /\ script \in Scripts
    /\ users \in IF script = "get_user_names" THEN UserLists
                 ELSE {<<>>, <<[name |-> alice], [name |-> bob]>>}
    /\ saved = <<>>
    /\ calls = <<>>
    /\ last = NoCall
    /\ x \in IF script = "bytecode_inspector" THEN 0..MaxX ELSE {0}
    /\ pc = [t \in Threads |-> "LOAD_GLOBAL"]
    /\ stack = [t \in Threads |-> <<>>]
    /\ loaded = [t \in Threads |-> -1]
    /\ N \in IF script = "gil_impact" THEN 0..MaxN ELSE {0}
    /\ mainpc = "create"
    /\ tstate = [t \in Threads |-> "none"]
    /\ cnt = [t \in Threads |-> 0]
    /\ cache = EmptyCache
    /\ fibres = <<>>

Next ==
    \/ get_user_names
    \/ AddUser
    \/ Divide
    \/ \E t \in Threads : unsafe_operation(t)
    \/ run_threaded
    \/ \E t \in Threads : count_down(t)
    \/ Main

Spec == Init /\ [][Next]_vars

(* the scheduler is fair to run_threaded's caller and to each thread *)
FairSpec ==
    /\ Spec
    /\ WF_vars(run_threaded)
    /\ \A t \in Threads : WF_vars(count_down(t))

----------------------------------------------------------------------------
(* Properties of UserManager *)

ALICE == <<"A", "L", "I", "C", "E">>
BOB   == <<"B", "O", "B">>

Called(op) == last.op = op

(* C1: for every non-empty list returned by db.get_users(), get_user_names  *)
(* returns a list of the same length whose i-th element is the uppercased   *)
(* name of the i-th record; ["alice","bob"] gives ["ALICE","BOB"].          *)
C1_UppercasedInOrder ==
    (Called("get_user_names") /\ last.args # <<>>) =>
        /\ last.outcome = "return"
        /\ Len(last.value) = Len(last.args)
        /\ \A i \in 1..Len(last.args) :
              /\ last.value[i] = str_upper(last.args[i].name)
              /\ \A k \in 1..Len(last.value[i]) : ~IsLower(last.value[i][k])
        /\ (last.args = <<[name |-> alice], [name |-> bob]>>
              => last.value = <<ALICE, BOB>>)

C1_Witness ==
    /\ Called("get_user_names")
    /\ last.args = <<[name |-> alice], [name |-> bob]>>
    /\ last.outcome = "return"
    /\ last.value = <<ALICE, BOB>>

(* C2: for every non-empty name, add_user(name) returns the record          *)
(* {"name": name, "active": True} and db.save_user was called with a record *)
(* equal to the returned one.                                               *)
C2_AddReturnsAndSaves ==
    (Called("add_user") /\ last.args # <<>>) =>
        /\ last.outcome = "return"
        /\ last.value.name = last.args
        /\ last.value.active = TRUE
        /\ DOMAIN last.value = {"name", "active"}
        /\ saved # <<>>
        /\ saved[Len(saved)] = last.value

C2_Witness ==
    /\ Called("add_user")
    /\ last.args = charlie
    /\ last.outcome = "return"
    /\ saved[Len(saved)] = [name |-> charlie, active |-> TRUE]

(* C3: add_user("") raises ValueError("Name cannot be empty") in every      *)
(* state of the manager and its db.                                         *)
C3_EmptyNameRaises ==
    (Called("add_user") /\ last.args = <<>>) =>
        /\ last.outcome = "raise"
        /\ last.exc = "ValueError"
        /\ last.msg = "Name cannot be empty"

C3_Witness ==
    /\ Called("add_user")
    /\ last.args = <<>>
    /\ last.outcome = "raise"
    /\ saved # <<>>
    /\ users # <<>>

NonEmptyCalls == SelectSeq(calls, LAMBDA n : n # <<>>)

(* C7: the validation error comes before any persistence: a call with an    *)
(* empty name never calls db.save_user, so the records passed to save_user  *)
(* are exactly the non-empty names added, in call order, one per add.       *)
C7_SavedAreNonEmptyCalls ==
    /\ Len(saved) = Len(NonEmptyCalls)
    /\ \A i \in 1..Len(saved) : saved[i] = [name |-> NonEmptyCalls[i], active |-> TRUE]

C7_Witness ==
    /\ Len(calls) = 3
    /\ calls[1] = bob
    /\ calls[2] = <<>>
    /\ calls[3] = charlie
    /\ Len(saved) = 2

(* C6: get_user_names fails with an error when an input record's name is    *)
(* empty.                                                                   *)
C6_EmptyNameFails ==
    (Called("get_user_names") /\ \E i \in 1..Len(last.args) : last.args[i].name = <<>>)
        => last.outcome = "raise"

(* C6 (amended): get_user_names raises no error on an empty name: it        *)
(* returns normally, with the empty string at that record's position.       *)
C6_EmptyNameKept ==
    Called("get_user_names") =>
        /\ last.outcome = "return"
        /\ Len(last.value) = Len(last.args)
        /\ \A i \in 1..Len(last.args) :
              last.args[i].name = <<>> => last.value[i] = <<>>

C6_Witness ==
    /\ Called("get_user_names")
    /\ Len(last.args) = 2
    /\ last.args[1].name = <<>>
    /\ last.args[2].name = bob
    /\ last.outcome = "return"

----------------------------------------------------------------------------
(* Properties of divide *)

RECURSIVE Pow2(_)
Pow2(k) == IF k <= 0 THEN 1 ELSE 2 * Pow2(k - 1)

RECURSIVE GCD(_, _)
GCD(p, q) == IF q = 0 THEN p ELSE GCD(q, p % q)

IsPow2(k) == \E e \in 0..k : Pow2(e) = k

(* |a| and |b| scaled by the float's exponent: |f| = |a/b| iff mantissa * B = A *)
ScaledA(f, a) == IF f.exp < 0 THEN Abs(a) * Pow2(-f.exp) ELSE Abs(a)
ScaledB(f, b) == IF f.exp < 0 THEN Abs(b) ELSE Abs(b) * Pow2(f.exp)

(* one bit of the comparison of the mantissa with A/B: from                 *)
(* r = 2^(k-1) * (A - B * (m[1] + ... + m[k-1]/2^(k-2))) to the same for k; *)
(* r stays put once the mantissa is too far from A/B to come back           *)
ResidueStep(B, r, bit) ==
    IF r < -B \/ r > 3 * B THEN r ELSE 2 * (r - bit * B)

(* ResidueStep over the bits m[k], m[k+1], ... starting from r *)
Residue(m, B, r0) ==
    LET res[r \in Int, k \in Nat] ==
            IF k > Len(m) THEN r ELSE res[ResidueStep(B, r, m[k]), k + 1]
    IN  res[r0, 1]

(* 2^MantDig * (|a| - |b| * |f|), scaled by 2^|f.exp| *)
RoundingError(f, a, b) == Residue(f.mant, ScaledB(f, b), ScaledA(f, a))

SignOf(a, b) == IF (a < 0) # (b < 0) THEN 1 ELSE 0

(* the float f is the rational a/b *)
ExactQuotient(f, a, b) ==
    IF a = 0 THEN f.mant = ZeroMant
    ELSE f.sign = SignOf(a, b) /\ RoundingError(f, a, b) = 0

(* |f - a/b| is at most half a unit in the last place of f *)
WithinHalfUlp(f, a, b) ==
    IF a = 0 THEN f.mant = ZeroMant
    ELSE /\ f.sign = SignOf(a, b)
         /\ f.mant[1] = 1
         /\ Abs(RoundingError(f, a, b)) <= ScaledB(f, b)

(* C4: for every dividend a, divide(a, 0) raises ZeroDivisionError and      *)
(* returns no value.                                                        *)
C4_ZeroDivisorRaises ==
    (Called("divide") /\ last.args[2] = 0) =>
        /\ last.outcome = "raise"
        /\ last.exc = "ZeroDivisionError"
        /\ "value" \notin DOMAIN last

C4_Witness ==
    /\ Called("divide")
    /\ last.args = <<10, 0>>
    /\ last.outcome = "raise"

(* C5: for all non-zero divisors b and every dividend a, divide(a, b)       *)
(* raises no error and returns a/b exactly.                                 *)
C5_ExactQuotient ==
    (Called("divide") /\ last.args[2] # 0) =>
        /\ last.outcome = "return"
        /\ ExactQuotient(last.value, last.args[1], last.args[2])

(* C5 (amended): for ints a and b # 0, divide(a, b) raises no error and     *)
(* returns the float nearest to a/b; it is a/b exactly if and only if the   *)
(* quotient in lowest terms has a power of two as denominator, in particular*)
(* whenever b divides a.                                                    *)
C5_NearestFloat ==
    (Called("divide") /\ last.args[2] # 0) =>
        LET a == last.args[1]
            b == last.args[2]
        IN  /\ last.outcome = "return"
            /\ Len(last.value.mant) = MantDig
            /\ WithinHalfUlp(last.value, a, b)
            /\ ExactQuotient(last.value, a, b)
                 <=> IsPow2(Abs(b) \div GCD(Abs(a), Abs(b)))

C5_Witness ==
    /\ Called("divide")
    /\ last.args = <<1, 5>>
    /\ last.outcome = "return"
    /\ ~ExactQuotient(last.value, 1, 5)
    /\ SubSeq(last.value.mant, MantDig - 3, MantDig) = <<1, 0, 1, 0>>

C5_WitnessExact ==
    /\ Called("divide")
    /\ last.args = <<10, 2>>
    /\ last.value = [sign |-> 0, exp |-> 2,
                      mant |-> [i \in 1..MantDig |-> IF i \in {1, 3} THEN 1 ELSE 0]]

----------------------------------------------------------------------------
(* Properties of unsafe_operation *)

AllDone == \A t \in Threads : pc[t] = "done"

(* C8: x += 1 is not atomic: a separate read, add and write back.  A thread *)
(* that reached STORE_GLOBAL writes the value it read plus one, whatever x  *)
(* is by then; when both threads read the same v the run ends with          *)
(* x = v + 1 (a lost update), otherwise with x = v + 2.                     *)
C8_LostUpdate ==
    script = "bytecode_inspector" =>
        /\ \A t \in Threads : pc[t] = "STORE_GLOBAL" => stack[t] = <<loaded[t] + 1>>
        /\ AllDone =>
              LET v == IF loaded[1] < loaded[2] THEN loaded[1] ELSE loaded[2]
              IN  /\ loaded[1] = loaded[2] => x = v + 1
                  /\ loaded[1] # loaded[2] => x = v + 2

C8_Witness ==
    /\ script = "bytecode_inspector"
    /\ AllDone
    /\ loaded[1] = 1
    /\ loaded[2] = 1
    /\ x = 2

----------------------------------------------------------------------------
(* Properties of run_threaded *)

Other(t) == CHOOSE u \in Threads : u # t

(* C9: for every n >= 0 the two count_down loops share no state and start   *)
(* from n // 2; under a fair interleaving both reach 0 and end, and         *)
(* run_threaded returns only after both threads have finished.              *)
C9_BothFinishBeforeReturn ==
    /\ [](script = "gil_impact" =>
            /\ \A t \in Threads : tstate[t] = "initial" => cnt[t] = N \div 2
            /\ mainpc = "returned" =>
                  \A t \in Threads : tstate[t] = "finished" /\ cnt[t] = 0)
    /\ [][\A t \in Threads : count_down(t) =>
              cnt'[Other(t)] = cnt[Other(t)] /\ tstate'[Other(t)] = tstate[Other(t)]]_vars
    /\ (script = "gil_impact") ~> (mainpc = "returned")

C9_Witness ==
    /\ script = "gil_impact"
    /\ N = 5
    /\ mainpc = "returned"
    /\ \A t \in Threads : cnt[t] = 0

----------------------------------------------------------------------------
(* Properties of the Fibonacci implementations *)

C10_WitnessRepeat ==
    /\ Len(fibres) = 2
    /\ fibres[1].n = 10 /\ ~fibres[1].hit
    /\ fibres[2].n = 10 /\ fibres[2].hit /\ fibres[2].memo = 55

====
